---- MODULE Spec2Model ----
(***************************************************************************)
(* Model of the item-category lifecycle service                            *)
(* (server/src/services/ItemCategories/ItemCategoriesService.ts).          *)
(*                                                                         *)
(* The per-tenant tables (item categories, items) are the state; every     *)
(* service method is a request that advances one awaited storage call at   *)
(* a time.  Reads of the chart of accounts are folded into the step of the *)
(* name query that precedes them: no operation of the service writes an    *)
(* account.                                                                *)
(***************************************************************************)
EXTENDS Integers, Sequences, FiniteSets, TLC

\* ---------------------------------------------------------------- bounds
MaxCategoryId == 2      \* ids the auto-increment key hands out per tenant
NumItems == 2           \* items per tenant
MaxBulkLen == 2         \* length of the id list of a bulk delete
MaxVendorId == 2        \* vendor ids of the web client's store: 1..MaxVendorId
MaxIndex == 2           \* entries of a journal form: 1..MaxIndex
MaxErrors == 2          \* length of the list of errors of an API response
MaxTicks == 8           \* quarter days that the clock of the login throttler runs
MaxTotal == 2           \* small section totals of a statement: -MaxTotal..MaxTotal

\* ------------------------------------------------------------- constants
NULL == -1              \* JavaScript null / undefined

Tenants == {1, 2}
Procs == {1, 2}
Names == {"a", "b"}
Users == {5}
ItemIds == 1..NumItems

\* Ids a caller may pass for a category: 0 and one id past the key range.
CategoryIdInputs == 0..(MaxCategoryId + 1)

ERRORS ==
  [ ITEM_CATEGORIES_NOT_FOUND       |-> "ITEM_CATEGORIES_NOT_FOUND",
    CATEGORY_NAME_EXISTS            |-> "CATEGORY_NAME_EXISTS",
    CATEGORY_NOT_FOUND              |-> "CATEGORY_NOT_FOUND",
    COST_ACCOUNT_NOT_FOUMD          |-> "COST_ACCOUNT_NOT_FOUMD",
    COST_ACCOUNT_NOT_COGS           |-> "COST_ACCOUNT_NOT_COGS",
    SELL_ACCOUNT_NOT_INCOME         |-> "SELL_ACCOUNT_NOT_INCOME",
    SELL_ACCOUNT_NOT_FOUND          |-> "SELL_ACCOUNT_NOT_FOUND",
    INVENTORY_ACCOUNT_NOT_FOUND     |-> "INVENTORY_ACCOUNT_NOT_FOUND",
    INVENTORY_ACCOUNT_NOT_INVENTORY |-> "INVENTORY_ACCOUNT_NOT_INVENTORY",
    CATEGORY_HAVE_ITEMS             |-> "CATEGORY_HAVE_ITEMS" ]

\* No error was thrown.
OK == "OK"

\* new ServiceError(errorType): the service passes the error type only.
NoPayload == <<>>
ServiceError(errorType) == [errorType |-> errorType, payload |-> NoPayload]
NoError == [errorType |-> OK, payload |-> NoPayload]

\* The chart of accounts of a tenant (read only here).  Tenant 2 numbers its
\* accounts differently from tenant 1.
Accounts(tenantId) ==
  IF tenantId = 1
  THEN { [id |-> 1, rootType |-> "income",  accountType |-> "income"],
         [id |-> 2, rootType |-> "expense", accountType |-> "cost-of-goods-sold"],
         [id |-> 3, rootType |-> "asset",   accountType |-> "inventory"],
         [id |-> 4, rootType |-> "asset",   accountType |-> "cash"] }
  ELSE { [id |-> 1, rootType |-> "expense", accountType |-> "cost-of-goods-sold"],
         [id |-> 2, rootType |-> "asset",   accountType |-> "inventory"],
         [id |-> 3, rootType |-> "income",  accountType |-> "income"] }

\* JavaScript truthiness of a number-or-null value: null, undefined and 0
\* are falsy.
Truthy(x) == x # NULL /\ x # 0

VARIABLES
  categories,   \* [Tenants -> set of item-category rows]
  nextId,       \* [Tenants -> next auto-increment id of the categories table]
  items,        \* [Tenants -> set of item rows]
  req           \* [Procs -> the request a worker is serving, or its outcome]

vars == <<categories, nextId, items, req>>

NoOTD == [name |-> "", sellAccountId |-> NULL, costAccountId |-> NULL,
          inventoryAccountId |-> NULL]

\* The tables of a tenant as a request found them when it was called (kept
\* while the request is in flight, to compare the tables with at its end).
NoSnapshot == [categories |-> {}, items |-> {}]

\* IProfitLossSheetStatement, each section and total by its total amount.
NoStatement ==
  [ income |-> 0, costOfSales |-> 0, expenses |-> 0, otherExpenses |-> 0,
    netIncome |-> 0, operatingProfit |-> 0, grossProfit |-> 0 ]

\* The vendors store of the web client before any action (its tableQuery,
\* which no action below touches, is left out).  A JavaScript object is a
\* function from its keys: <<>> is the object without keys.
initialState ==
  [ items |-> <<>>, views |-> <<>>, loading |-> FALSE, currentViewId |-> -1,
    selectedRows |-> <<>> ]

\* A call of transformErrors: its arguments (the errors of the API response,
\* the errors the form shows), the calls of setErrors it made and the toasts
\* it showed.
NoForm == [resErrors |-> <<>>, errors |-> <<>>, setErrors |-> <<>>, toasts |-> <<>>]

\* The login throttler's record of a client: the clock (seconds), the points
\* consumed by failed logins, the time of the first of them, and the time up
\* to which the client is blocked.
NoThrottle ==
  [now |-> 0, consumedPoints |-> 0, firstFail |-> NULL, blockedUntil |-> NULL]

IdleRequest ==
  [ op |-> "none", pc |-> "idle", tenantId |-> 0, id |-> NULL, ids |-> <<>>,
    otd |-> NoOTD, userId |-> NULL, error |-> NoError, events |-> <<>>,
    ret |-> NULL, patched |-> 0, before |-> NoSnapshot,
    statement |-> NoStatement, itemCategories |-> {},
    promise |-> "none", dispatched |-> <<>>, vendors |-> initialState,
    form |-> NoForm, throttle |-> NoThrottle ]

Finished(p) == req[p].pc \in {"idle", "done"}
NoRequestInFlight == \A p \in Procs : Finished(p)

\* Tenant 1 starts empty.  Tenant 2 already holds a category named "a", with
\* one of its items filed under it: data of another tenant that the requests
\* of tenant 1 meet.
Init ==
  /\ categories =
       [t \in Tenants |->
          IF t = 1 THEN {}
          ELSE { [id |-> 1, name |-> "a", sellAccountId |-> 3,
                  costAccountId |-> NULL, inventoryAccountId |-> NULL,
                  userId |-> 5] }]
  /\ nextId = [t \in Tenants |-> IF t = 1 THEN 1 ELSE 2]
  /\ items =
       [t \in Tenants |->
          { [id |-> i, name |-> i,
             category_id |-> IF t = 2 /\ i = 1 THEN 1 ELSE NULL] : i \in ItemIds }]
  /\ req = [p \in Procs |-> IdleRequest]

\* ------------------------------------------------------- storage queries

\* Mutant: the model of the query is not bound to the tenant.
findById_AnyTenant(tenantId, itemCategoryId) ==
  { c \in UNION { categories[t] : t \in Tenants } : c.id = itemCategoryId }

\* ItemCategory.query().findById(id)
findById(tenantId, itemCategoryId) ==
  { c \in categories[tenantId] : c.id = itemCategoryId }

\* accountRepository.findOneById(id)
findOneById(tenantId, accountId) ==
  { a \in Accounts(tenantId) : a.id = accountId }

isRootType(account, rootType) == account.rootType = rootType
isAccountType(account, accountType) == account.accountType = accountType

\* --------------------------------------------------------- validations
\* Each validation returns the error it throws, or NoError.

\* Mutant: the test of the query's result never holds (a row that is not
\* found is undefined, and the result is compared with null).
getItemCategoryOrThrowError_NeverThrows(tenantId, itemCategoryId) == NoError

getItemCategoryOrThrowError(tenantId, itemCategoryId) ==
  IF findById(tenantId, itemCategoryId) = {}
  THEN ServiceError(ERRORS.CATEGORY_NOT_FOUND)
  ELSE NoError

\* Mutant: the name query runs on the models of another tenant.
validateCategoryNameUniquiness_OtherTenant(tenantId, categoryName, notCategoryId) ==
  IF \E c \in categories[3 - tenantId] : c.name = categoryName
  THEN ServiceError(ERRORS.CATEGORY_NAME_EXISTS)
  ELSE NoError

\* Mutant: on edit the query keeps only the edited row (where instead of
\* whereNot), so a name held by another category passes.
validateCategoryNameUniquiness_WhereId(tenantId, categoryName, notCategoryId) ==
  LET foundItemCategory ==
        { c \in categories[tenantId] :
            /\ c.name = categoryName
            /\ (Truthy(notCategoryId) => c.id = notCategoryId) }
  IN  IF foundItemCategory # {}
      THEN ServiceError(ERRORS.CATEGORY_NAME_EXISTS)
      ELSE NoError

\* Mutant: the whereNot('id', notCategoryId) clause is never added.
validateCategoryNameUniquiness_NoExclude(tenantId, categoryName, notCategoryId) ==
  IF \E c \in categories[tenantId] : c.name = categoryName
  THEN ServiceError(ERRORS.CATEGORY_NAME_EXISTS)
  ELSE NoError

\* findOne('name', categoryName), with whereNot('id', notCategoryId) added
\* only when notCategoryId is truthy.
validateCategoryNameUniquiness(tenantId, categoryName, notCategoryId) ==
  LET foundItemCategory ==
        { c \in categories[tenantId] :
            /\ c.name = categoryName
            /\ (Truthy(notCategoryId) => c.id # notCategoryId) }
  IN  IF foundItemCategory # {}
      THEN ServiceError(ERRORS.CATEGORY_NAME_EXISTS)
      ELSE NoError

\* Mutant: the sell account is checked against the expense root type.
validateSellAccount_ExpenseRoot(tenantId, sellAccountId) ==
  LET foundAccount == findOneById(tenantId, sellAccountId)
  IN  IF foundAccount = {}
      THEN ServiceError(ERRORS.SELL_ACCOUNT_NOT_FOUND)
      ELSE IF ~isRootType(CHOOSE a \in foundAccount : TRUE, "expense")
      THEN ServiceError(ERRORS.SELL_ACCOUNT_NOT_INCOME)
      ELSE NoError

validateSellAccount(tenantId, sellAccountId) ==
  LET foundAccount == findOneById(tenantId, sellAccountId)
  IN  IF foundAccount = {}
      THEN ServiceError(ERRORS.SELL_ACCOUNT_NOT_FOUND)
      ELSE IF ~isRootType(CHOOSE a \in foundAccount : TRUE, "income")
      THEN ServiceError(ERRORS.SELL_ACCOUNT_NOT_INCOME)
      ELSE NoError

validateCostAccount(tenantId, costAccountId) ==
  LET foundAccount == findOneById(tenantId, costAccountId)
  IN  IF foundAccount = {}
      THEN ServiceError(ERRORS.COST_ACCOUNT_NOT_FOUMD)
      ELSE IF ~isRootType(CHOOSE a \in foundAccount : TRUE, "expense")
      THEN ServiceError(ERRORS.COST_ACCOUNT_NOT_COGS)
      ELSE NoError

validateInventoryAccount(tenantId, inventoryAccountId) ==
  LET foundAccount == findOneById(tenantId, inventoryAccountId)
  IN  IF foundAccount = {}
      THEN ServiceError(ERRORS.INVENTORY_ACCOUNT_NOT_FOUND)
      ELSE IF ~isAccountType(CHOOSE a \in foundAccount : TRUE, "inventory")
      THEN ServiceError(ERRORS.INVENTORY_ACCOUNT_NOT_INVENTORY)
      ELSE NoError

\* The guarded account validations of newItemCategory and editItemCategory:
\* each runs only when its id is truthy, and the first error thrown ends the
\* request.
validateAccounts(tenantId, otd) ==
  LET sell == IF Truthy(otd.sellAccountId)
              THEN validateSellAccount(tenantId, otd.sellAccountId)
              ELSE NoError
      cost == IF Truthy(otd.costAccountId)
              THEN validateCostAccount(tenantId, otd.costAccountId)
              ELSE NoError
      inventory == IF Truthy(otd.inventoryAccountId)
                   THEN validateInventoryAccount(tenantId, otd.inventoryAccountId)
                   ELSE NoError
  IN  IF sell # NoError THEN sell
      ELSE IF cost # NoError THEN cost
      ELSE inventory

\* The name check followed by the account checks.
validateOTD(tenantId, otd, notCategoryId) ==
  LET name == validateCategoryNameUniquiness(tenantId, otd.name, notCategoryId)
  IN  IF name # NoError THEN name ELSE validateAccounts(tenantId, otd)

\* { ...itemCategoryOTD, userId: authorizedUser.id }
\* Mutant: the authorized user's id is not put on the object.
transformOTDToObject_NoUser(otd, userId) ==
  [ name |-> otd.name, sellAccountId |-> otd.sellAccountId,
    costAccountId |-> otd.costAccountId,
    inventoryAccountId |-> otd.inventoryAccountId, userId |-> NULL ]

transformOTDToObject(otd, userId) ==
  [ name |-> otd.name, sellAccountId |-> otd.sellAccountId,
    costAccountId |-> otd.costAccountId,
    inventoryAccountId |-> otd.inventoryAccountId, userId |-> userId ]

\* The row an insert or a patch of `obj` leaves under key `id`.
CategoryRow(id, obj) ==
  [ id |-> id, name |-> obj.name, sellAccountId |-> obj.sellAccountId,
    costAccountId |-> obj.costAccountId,
    inventoryAccountId |-> obj.inventoryAccountId, userId |-> obj.userId ]

\* The ids (a set) of a list of ids.
Range(seq) == { seq[i] : i \in DOMAIN seq }

\* lodash difference(itemCategoriesIds, storedItemCategoriesIds): the elements
\* of the first list that are not in the second, in order.
RECURSIVE difference(_, _)
difference(array, values) ==
  IF array = <<>> THEN <<>>
  ELSE IF Head(array) \in values
       THEN difference(Tail(array), values)
       ELSE <<Head(array)>> \o difference(Tail(array), values)

\* Mutant: the request fails only when none of the ids is stored.
getItemCategoriesOrThrowError_NoneFound(tenantId, itemCategoriesIds) ==
  LET itemCategories ==
        { c \in categories[tenantId] : c.id \in Range(itemCategoriesIds) }
  IN  IF itemCategories = {} /\ Len(itemCategoriesIds) > 0
      THEN ServiceError(ERRORS.ITEM_CATEGORIES_NOT_FOUND)
      ELSE NoError

getItemCategoriesOrThrowError(tenantId, itemCategoriesIds) ==
  LET itemCategories ==
        { c \in categories[tenantId] : c.id \in Range(itemCategoriesIds) }
      storedItemCategoriesIds == { c.id : c \in itemCategories }
      notFoundCategories == difference(itemCategoriesIds, storedItemCategoriesIds)
  IN  IF Len(notFoundCategories) > 0
      THEN ServiceError(ERRORS.ITEM_CATEGORIES_NOT_FOUND)
      ELSE NoError

\* Mutant: the patch has no whereIn clause and clears every item.
unassociateItemsWithCategories_AllItems(tenantId, ids) ==
  { [i EXCEPT !.category_id = NULL] : i \in items[tenantId] }

\* Item.query().whereIn('category_id', ids).patch({ category_id: null })
unassociateItemsWithCategories(tenantId, ids) ==
  { IF i.category_id \in ids
    THEN [i EXCEPT !.category_id = NULL]
    ELSE i : i \in items[tenantId] }

\* The number of rows that patch updates (the value its promise resolves to).
PatchedRows(tenantId, ids) ==
  Cardinality({ i \in items[tenantId] : i.category_id \in ids })

\* ItemCategory.query().whereIn('id', ids).delete()
\* Mutant: the delete removes the row of one listed id only.
deleteCategoryRows_FirstOnly(tenantId, ids) ==
  IF ids = {} THEN categories[tenantId]
  ELSE { c \in categories[tenantId] : c.id # CHOOSE id \in ids : TRUE }

deleteCategoryRows(tenantId, ids) ==
  { c \in categories[tenantId] : c.id \notin ids }

\* ------------------------------------------------------------- requests

Snapshot(tenantId) ==
  [categories |-> categories[tenantId], items |-> items[tenantId]]

Start(p, op, pc, tenantId) ==
  [IdleRequest EXCEPT !.op = op, !.pc = pc, !.tenantId = tenantId,
                      !.before = Snapshot(tenantId)]

\* What is left of a request when it returns or throws: the ids it named and
\* its outcome stay until the worker's next request, the payload and the user
\* are gone with its frame.
Outcome(p, error, events) ==
  [req[p] EXCEPT !.pc = "done", !.otd = NoOTD, !.userId = NULL,
                 !.before = NoSnapshot,
                 !.error = error, !.events = events]

\* The request of worker p ends by throwing `error`.
Throw(p, error) ==
  req' = [req EXCEPT ![p] = Outcome(p, error, req[p].events)]

Goto(p, pc) == req' = [req EXCEPT ![p].pc = pc]

\* Mutant: the event is dispatched twice.
Dispatch_Twice(p, event) ==
  req' = [req EXCEPT ![p] =
            Outcome(p, NoError, Append(Append(req[p].events, event), event))]

\* await this.eventDispatcher.dispatch(event), the last awaited call of every
\* operation: the request returns after it.
Dispatch(p, event) ==
  req' = [req EXCEPT ![p] = Outcome(p, NoError, Append(req[p].events, event))]

\* Insert requests that passed validation and have not inserted yet.
PendingInserts(tenantId) ==
  Cardinality({ p \in Procs :
                  /\ req[p].op = "newItemCategory"
                  /\ req[p].tenantId = tenantId
                  /\ req[p].pc \in {"validate", "insert"} })

\* ---- getItemCategory(tenantId, itemCategoryId, user)

getItemCategory_Call(p, tenantId, itemCategoryId) ==
  /\ Finished(p)
  /\ req' = [req EXCEPT ![p] =
               [Start(p, "getItemCategory", "get", tenantId)
                  EXCEPT !.id = itemCategoryId]]
  /\ UNCHANGED <<categories, nextId, items>>

\* return this.getItemCategoryOrThrowError(tenantId, itemCategoryId)
getItemCategory_Get(p) ==
  /\ req[p].op = "getItemCategory" /\ req[p].pc = "get"
  /\ LET error == getItemCategoryOrThrowError(req[p].tenantId, req[p].id)
     IN  IF error # NoError
         THEN Throw(p, error)
         ELSE req' = [req EXCEPT ![p] =
                        [Outcome(p, NoError, req[p].events)
                           EXCEPT !.ret = req[p].id]]
  /\ UNCHANGED <<categories, nextId, items>>

\* ---- getItemCategoriesList(tenantId, filterDTO, authorizedUser), with a
\* filter that lets every category through

\* Mutant: the subquery counts the items of the tenant, not those related to
\* the category.
itemsCount_EveryItem(tenantId, itemCategory) == Cardinality(items[tenantId])

\* ItemCategory.relatedQuery('items').count()
itemsCount(tenantId, itemCategory) ==
  Cardinality({ i \in items[tenantId] : i.category_id = itemCategory.id })

getItemCategoriesList_Call(p, tenantId) ==
  /\ Finished(p)
  /\ req' = [req EXCEPT ![p] =
               Start(p, "getItemCategoriesList", "dynamicList", tenantId)]
  /\ UNCHANGED <<categories, nextId, items>>

\* await this.dynamicListService.dynamicList(tenantId, ItemCategory, filter)
getItemCategoriesList_DynamicList(p) ==
  /\ req[p].op = "getItemCategoriesList" /\ req[p].pc = "dynamicList"
  /\ Goto(p, "query")
  /\ UNCHANGED <<categories, nextId, items>>

\* query.select('*', ItemCategory.relatedQuery('items').count().as('count'))
getItemCategoriesList_Query(p) ==
  /\ req[p].op = "getItemCategoriesList" /\ req[p].pc = "query"
  /\ LET t == req[p].tenantId
         itemCategories ==
           { [id |-> c.id, name |-> c.name, count |-> itemsCount(t, c)] :
               c \in categories[t] }
     IN  req' = [req EXCEPT ![p] =
                   [Outcome(p, NoError, req[p].events)
                      EXCEPT !.itemCategories = itemCategories]]
  /\ UNCHANGED <<categories, nextId, items>>

\* ---- newItemCategory(tenantId, itemCategoryOTD, authorizedUser)

newItemCategory_Call(p, tenantId, otd, userId) ==
  /\ Finished(p)
  /\ nextId[tenantId] + PendingInserts(tenantId) <= MaxCategoryId
  /\ req' = [req EXCEPT ![p] =
               [Start(p, "newItemCategory", "validate", tenantId)
                  EXCEPT !.otd = otd, !.userId = userId]]
  /\ UNCHANGED <<categories, nextId, items>>

newItemCategory_Validate(p) ==
  /\ req[p].op = "newItemCategory" /\ req[p].pc = "validate"
  /\ LET error == validateOTD(req[p].tenantId, req[p].otd, NULL)
     IN  IF error # NoError THEN Throw(p, error) ELSE Goto(p, "insert")
  /\ UNCHANGED <<categories, nextId, items>>

newItemCategory_Insert(p) ==
  /\ req[p].op = "newItemCategory" /\ req[p].pc = "insert"
  /\ LET t == req[p].tenantId
         itemCategoryObj == transformOTDToObject(req[p].otd, req[p].userId)
     IN  /\ categories' = [categories EXCEPT
                             ![t] = @ \cup {CategoryRow(nextId[t], itemCategoryObj)}]
         /\ nextId' = [nextId EXCEPT ![t] = @ + 1]
         /\ req' = [req EXCEPT ![p].pc = "dispatch", ![p].ret = nextId[t]]
  /\ UNCHANGED items

newItemCategory_Dispatch(p) ==
  /\ req[p].op = "newItemCategory" /\ req[p].pc = "dispatch"
  /\ Dispatch(p, "onCreated")
  /\ UNCHANGED <<categories, nextId, items>>

\* ---- editItemCategory(tenantId, itemCategoryId, itemCategoryOTD, authorizedUser)

editItemCategory_Call(p, tenantId, itemCategoryId, otd, userId) ==
  /\ Finished(p)
  /\ req' = [req EXCEPT ![p] =
               [Start(p, "editItemCategory", "get", tenantId)
                  EXCEPT !.id = itemCategoryId, !.otd = otd, !.userId = userId]]
  /\ UNCHANGED <<categories, nextId, items>>

editItemCategory_Get(p) ==
  /\ req[p].op = "editItemCategory" /\ req[p].pc = "get"
  /\ LET error == getItemCategoryOrThrowError(req[p].tenantId, req[p].id)
     IN  IF error # NoError THEN Throw(p, error) ELSE Goto(p, "validate")
  /\ UNCHANGED <<categories, nextId, items>>

editItemCategory_Validate(p) ==
  /\ req[p].op = "editItemCategory" /\ req[p].pc = "validate"
  /\ LET error == validateOTD(req[p].tenantId, req[p].otd, req[p].id)
     IN  IF error # NoError THEN Throw(p, error) ELSE Goto(p, "patch")
  /\ UNCHANGED <<categories, nextId, items>>

\* patchAndFetchById(itemCategoryId, obj): a patch of a row that is gone
\* changes nothing and fetches nothing.
editItemCategory_Patch(p) ==
  /\ req[p].op = "editItemCategory" /\ req[p].pc = "patch"
  /\ LET t == req[p].tenantId
         itemCategoryObj == transformOTDToObject(req[p].otd, req[p].userId)
     IN  /\ categories' = [categories EXCEPT
                             ![t] = { IF c.id = req[p].id
                                      THEN CategoryRow(c.id, itemCategoryObj)
                                      ELSE c : c \in @ }]
         /\ req' = [req EXCEPT
                      ![p].pc = "dispatch",
                      ![p].ret = IF findById(t, req[p].id) # {}
                                 THEN req[p].id ELSE NULL]
  /\ UNCHANGED <<nextId, items>>

editItemCategory_Dispatch(p) ==
  /\ req[p].op = "editItemCategory" /\ req[p].pc = "dispatch"
  /\ Dispatch(p, "onEdited")
  /\ UNCHANGED <<categories, nextId, items>>

\* ---- deleteItemCategory(tenantId, itemCategoryId, authorizedUser)

deleteItemCategory_Call(p, tenantId, itemCategoryId) ==
  /\ Finished(p)
  /\ req' = [req EXCEPT ![p] =
               [Start(p, "deleteItemCategory", "get", tenantId)
                  EXCEPT !.id = itemCategoryId]]
  /\ UNCHANGED <<categories, nextId, items>>

deleteItemCategory_Get(p) ==
  /\ req[p].op = "deleteItemCategory" /\ req[p].pc = "get"
  /\ LET error == getItemCategoryOrThrowError(req[p].tenantId, req[p].id)
     IN  IF error # NoError THEN Throw(p, error) ELSE Goto(p, "unassociate")
  /\ UNCHANGED <<categories, nextId, items>>

\* Mutant: the items are not unassociated before the row is deleted.
deleteItemCategory_Unassociate_Skipped(p) ==
  /\ req[p].op = "deleteItemCategory" /\ req[p].pc = "unassociate"
  /\ Goto(p, "delete")
  /\ UNCHANGED <<categories, nextId, items>>

deleteItemCategory_Unassociate(p) ==
  /\ req[p].op = "deleteItemCategory" /\ req[p].pc = "unassociate"
  /\ items' = [items EXCEPT ![req[p].tenantId] =
                 unassociateItemsWithCategories(req[p].tenantId, {req[p].id})]
  /\ req' = [req EXCEPT ![p].pc = "delete",
                        ![p].patched = PatchedRows(req[p].tenantId, {req[p].id})]
  /\ UNCHANGED <<categories, nextId>>

deleteItemCategory_Delete(p) ==
  /\ req[p].op = "deleteItemCategory" /\ req[p].pc = "delete"
  /\ categories' = [categories EXCEPT ![req[p].tenantId] =
                      deleteCategoryRows(req[p].tenantId, {req[p].id})]
  /\ Goto(p, "dispatch")
  /\ UNCHANGED <<nextId, items>>

deleteItemCategory_Dispatch(p) ==
  /\ req[p].op = "deleteItemCategory" /\ req[p].pc = "dispatch"
  /\ Dispatch(p, "onDeleted")
  /\ UNCHANGED <<categories, nextId, items>>

\* ---- deleteItemCategories(tenantId, itemCategoriesIds, authorizedUser)

deleteItemCategories_Call(p, tenantId, itemCategoriesIds) ==
  /\ Finished(p)
  /\ req' = [req EXCEPT ![p] =
               [Start(p, "deleteItemCategories", "get", tenantId)
                  EXCEPT !.ids = itemCategoriesIds]]
  /\ UNCHANGED <<categories, nextId, items>>

deleteItemCategories_Get(p) ==
  /\ req[p].op = "deleteItemCategories" /\ req[p].pc = "get"
  /\ LET error == getItemCategoriesOrThrowError(req[p].tenantId, req[p].ids)
     IN  IF error # NoError THEN Throw(p, error) ELSE Goto(p, "unassociate")
  /\ UNCHANGED <<categories, nextId, items>>

deleteItemCategories_Unassociate(p) ==
  /\ req[p].op = "deleteItemCategories" /\ req[p].pc = "unassociate"
  /\ items' = [items EXCEPT ![req[p].tenantId] =
                 unassociateItemsWithCategories(req[p].tenantId, Range(req[p].ids))]
  /\ req' = [req EXCEPT ![p].pc = "delete",
                        ![p].patched = PatchedRows(req[p].tenantId, Range(req[p].ids))]
  /\ UNCHANGED <<categories, nextId>>

deleteItemCategories_Delete(p) ==
  /\ req[p].op = "deleteItemCategories" /\ req[p].pc = "delete"
  /\ categories' = [categories EXCEPT ![req[p].tenantId] =
                      deleteCategoryRows(req[p].tenantId, Range(req[p].ids))]
  /\ Goto(p, "dispatch")
  /\ UNCHANGED <<nextId, items>>

deleteItemCategories_Dispatch(p) ==
  /\ req[p].op = "deleteItemCategories" /\ req[p].pc = "dispatch"
  /\ Dispatch(p, "onBulkDeleted")
  /\ UNCHANGED <<categories, nextId, items>>

\* ---- the profit and loss sheet: the totals of a statement whose sections
\* are summed

\* Mutant: the expenses are added to the gross profit.
operatingProfitOf_ExpensesAdded(grossProfit, expenses) == grossProfit + expenses

grossProfitOf(income, costOfSales) == income - costOfSales
operatingProfitOf(grossProfit, expenses) == grossProfit - expenses
netIncomeOf(operatingProfit, otherExpenses) == operatingProfit - otherExpenses

profitLossSheet_Totals(p) ==
  /\ req[p].op = "profitLossSheet" /\ req[p].pc = "totals"
  /\ LET st == req[p].statement
         grossProfit == grossProfitOf(st.income, st.costOfSales)
         operatingProfit == operatingProfitOf(grossProfit, st.expenses)
         netIncome == netIncomeOf(operatingProfit, st.otherExpenses)
     IN  req' = [req EXCEPT ![p] =
                   [Outcome(p, NoError, req[p].events)
                      EXCEPT !.statement =
                        [st EXCEPT !.grossProfit = grossProfit,
                                   !.operatingProfit = operatingProfit,
                                   !.netIncome = netIncome]]]
  /\ UNCHANGED <<categories, nextId, items>>

\* ---- a rejected await

\* What a storage call or a subscriber rejects with: not a ServiceError.
Rejected == [errorType |-> "REJECTED", payload |-> NoPayload]

\* The awaited call at which the request of worker p stands rejects (the
\* query fails, a subscriber of the event throws) without having written.
\* No method catches: the rejection ends the request as its error, and what
\* the earlier calls of the request wrote stays written.
AwaitRejects(p) ==
  /\ ~Finished(p)
  /\ Throw(p, Rejected)
  /\ UNCHANGED <<categories, nextId, items>>

\* ---- the item thunks of the web client: fetchItems({ query }) and
\* fetchItem({ id }).  A thunk call is a request of the client: `promise` is
\* the state of the promise the thunk returned, `dispatched` the actions it
\* has dispatched to the store.

fetchItems_Call(p) ==
  /\ req[p].pc = "idle"
  /\ req' = [req EXCEPT ![p] =
               [IdleRequest EXCEPT !.op = "fetchItems", !.pc = "get",
                                   !.promise = "pending"]]
  /\ UNCHANGED <<categories, nextId, items>>

\* ApiService.get(`items`).then(response => { dispatch; dispatch; resolve })
fetchItems_Then(p, results) ==
  /\ req[p].op = "fetchItems" /\ req[p].pc = "get"
  /\ req' = [req EXCEPT
               ![p].pc = "done",
               ![p].dispatched = << [type |-> "ITEMS_SET", items |-> results],
                                    [type |-> "ITEMS_PAGE_SET", items |-> results] >>,
               ![p].promise = "resolved"]
  /\ UNCHANGED <<categories, nextId, items>>

\* .catch(error => { reject(error); })
fetchItems_Catch(p) ==
  /\ req[p].op = "fetchItems" /\ req[p].pc = "get"
  /\ req' = [req EXCEPT ![p].pc = "done", ![p].error = Rejected,
                        ![p].promise = "rejected"]
  /\ UNCHANGED <<categories, nextId, items>>

fetchItem_Call(p, id) ==
  /\ req[p].pc = "idle"
  /\ req' = [req EXCEPT ![p] =
               [IdleRequest EXCEPT !.op = "fetchItem", !.pc = "get",
                                   !.id = id, !.promise = "pending"]]
  /\ UNCHANGED <<categories, nextId, items>>

\* ApiService.get(`items/${id}`).then(response => { dispatch }): the handler
\* ends without a call of resolve.
fetchItem_Then(p) ==
  /\ req[p].op = "fetchItem" /\ req[p].pc = "get"
  /\ req' = [req EXCEPT
               ![p].pc = "done",
               ![p].dispatched = << [type |-> "ITEM_SET", item |-> req[p].id] >>]
  /\ UNCHANGED <<categories, nextId, items>>

\* .catch(error => { reject(error); })
fetchItem_Catch(p) ==
  /\ req[p].op = "fetchItem" /\ req[p].pc = "get"
  /\ req' = [req EXCEPT ![p].pc = "done", ![p].error = Rejected,
                        ![p].promise = "rejected"]
  /\ UNCHANGED <<categories, nextId, items>>

\* The API request of worker p completes, with a response or with an error.
ApiResponds(p) ==
  \/ \E results \in SUBSET ItemIds : fetchItems_Then(p, results)
  \/ fetchItems_Catch(p)
  \/ fetchItem_Then(p)
  \/ fetchItem_Catch(p)

\* ---- the vendors reducer of the web client: `vendors` is the state of the
\* store of client p, `dispatched` the action it reduced last.

\* { ...a, ...b }
Spread(a, b) ==
  [k \in DOMAIN a \cup DOMAIN b |-> IF k \in DOMAIN b THEN b[k] ELSE a[k]]

\* The object `obj` with key k set to v, and with key k deleted.
SetKey(obj, k, v) ==
  [j \in DOMAIN obj \cup {k} |-> IF j = k THEN v ELSE obj[j]]
DeleteKey(obj, k) == [j \in DOMAIN obj \ {k} |-> obj[j]]

\* vendors.forEach((vendor) => { _vendors[vendor.id] = { ...vendor } })
RECURSIVE VendorsById(_)
VendorsById(vendors) ==
  IF vendors = <<>> THEN <<>>
  ELSE LET n == Len(vendors)
       IN  SetKey(VendorsById(SubSeq(vendors, 1, n - 1)),
                  vendors[n].id, vendors[n])

\* Mutant: VENDOR_SET replaces the entry by the given fields.
VENDOR_SET_Replace(state, action) ==
  [state EXCEPT !.items = SetKey(state.items, action.id, action.vendor)]

VENDOR_SET(state, action) ==
  LET _vendors == IF action.id \in DOMAIN state.items
                  THEN state.items[action.id] ELSE <<>>
  IN  [state EXCEPT
         !.items = SetKey(state.items, action.id, Spread(_vendors, action.vendor))]

VENDORS_TABLE_LOADING(state, action) ==
  [state EXCEPT !.loading = action.loading]

VENDORS_ITEMS_SET(state, action) ==
  [state EXCEPT !.items = Spread(state.items, VendorsById(action.vendors))]

VENDORS_SET_CURRENT_VIEW(state, action) ==
  [state EXCEPT !.currentViewId = action.currentViewId]

VENDORS_PAGE_SET(state, action) ==
  LET viewId == IF Truthy(action.customViewId) THEN action.customViewId ELSE -1
      view == IF viewId \in DOMAIN state.views THEN state.views[viewId] ELSE <<>>
      pages == IF "pages" \in DOMAIN view THEN view.pages ELSE <<>>
      page == [ids |-> [i \in DOMAIN action.vendors |-> action.vendors[i].id]]
  IN  [state EXCEPT
         !.views = SetKey(state.views, viewId,
                     Spread(view, [pages |-> SetKey(pages, action.page, page)]))]

VENDOR_DELETE(state, action) ==
  IF action.id \in DOMAIN state.items
  THEN [state EXCEPT !.items = DeleteKey(state.items, action.id)]
  ELSE state

VENDOR_SELECTED_ROWS_SET(state, action) ==
  [state EXCEPT !.selectedRows = action.selectedRows]

\* createReducer(initialState, { [type]: handler })
vendorsReducer(state, action) ==
  CASE action.type = "VENDOR_SET" -> VENDOR_SET(state, action)
    [] action.type = "VENDORS_TABLE_LOADING" -> VENDORS_TABLE_LOADING(state, action)
    [] action.type = "VENDORS_ITEMS_SET" -> VENDORS_ITEMS_SET(state, action)
    [] action.type = "VENDORS_SET_CURRENT_VIEW" ->
         VENDORS_SET_CURRENT_VIEW(state, action)
    [] action.type = "VENDORS_PAGE_SET" -> VENDORS_PAGE_SET(state, action)
    [] action.type = "VENDOR_DELETE" -> VENDOR_DELETE(state, action)
    [] action.type = "VENDOR_SELECTED_ROWS_SET" ->
         VENDOR_SELECTED_ROWS_SET(state, action)

\* store.dispatch(action) of client p.
vendors_Dispatch(p, action) ==
  /\ req[p].pc = "idle"
  /\ req' = [req EXCEPT ![p].op = "vendors",
                        ![p].dispatched = <<action>>,
                        ![p].vendors = vendorsReducer(@, action)]
  /\ UNCHANGED <<categories, nextId, items>>

\* ---- transformErrors(resErrors, { setErrors, errors }) of the journal form

ERROR ==
  [ JOURNAL_NUMBER_ALREADY_EXISTS |-> "JOURNAL.NUMBER.ALREADY.EXISTS",
    RECEIVABLE_ENTRIES_HAS_NO_CUSTOMERS |-> "RECEIVABLE.ENTRIES.HAS.NO.CUSTOMERS",
    CREDIT_DEBIT_SUMATION_SHOULD_NOT_EQUAL_ZERO |->
      "CREDIT.DEBIT.SUMATION.SHOULD.NOT.EQUAL.ZERO",
    ENTRIES_SHOULD_ASSIGN_WITH_CONTACT |-> "ENTRIES_SHOULD_ASSIGN_WITH_CONTACT" ]

\* resErrors.find((e) => e.type === errorType): the first error of the type,
\* as a set of one error, or the empty set (undefined).
getError(resErrors, errorType) ==
  LET found == { i \in DOMAIN resErrors : resErrors[i].type = errorType }
  IN  IF found = {} THEN {}
      ELSE { resErrors[CHOOSE i \in found : \A j \in found : i <= j] }

\* lodash setWith(object, path, value), the path given by its keys.
RECURSIVE setWith(_, _, _)
setWith(object, path, value) ==
  IF Len(path) = 1 THEN SetKey(object, path[1], value)
  ELSE LET nested == IF path[1] \in DOMAIN object THEN object[path[1]] ELSE <<>>
       IN  SetKey(object, path[1], setWith(nested, Tail(path), value))

\* Mutant: the reported index is taken as the index of the form row.
entryIndex_NotShifted(i) == i

\* const index = Math.max(i - 1, 0)
entryIndex(i) == IF i - 1 > 0 THEN i - 1 ELSE 0

\* indexes.forEach((i) => { newErrors = setWith(newErrors,
\*   `entries.[${index}].${prop}`, message) })
RECURSIVE setEntriesErrors(_, _, _, _)
setEntriesErrors(newErrors, indexes, prop, message) ==
  IF indexes = <<>> THEN newErrors
  ELSE setEntriesErrors(
         setWith(newErrors, <<"entries", entryIndex(Head(indexes)), prop>>, message),
         Tail(indexes), prop, message)

\* The calls of setErrors and of AppToaster.show that transformErrors makes.
transformErrors(resErrors, errors) ==
  LET receivable == getError(resErrors, ERROR.RECEIVABLE_ENTRIES_HAS_NO_CUSTOMERS)
      contact == getError(resErrors, ERROR.ENTRIES_SHOULD_ASSIGN_WITH_CONTACT)
      journal == getError(resErrors, ERROR.JOURNAL_NUMBER_ALREADY_EXISTS)
      errorOf(found) == CHOOSE e \in found : TRUE
      newErrors0 == Spread(errors, [entries |-> <<>>])
      toastMessages1 ==
        IF receivable # {}
        THEN <<"should_select_customers_with_entries_have_receivable_account">>
        ELSE <<>>
      newErrors1 ==
        IF receivable # {}
        THEN setEntriesErrors(newErrors0, errorOf(receivable).indexes,
                              "contact_id", "error")
        ELSE newErrors0
      toastMessages2 ==
        IF contact # {} /\ errorOf(contact).meta.contact_type = "customer"
        THEN Append(toastMessages1,
                    "receivable_accounts_should_assign_with_customers")
        ELSE toastMessages1
      toastMessages ==
        IF contact # {} /\ errorOf(contact).meta.contact_type = "vendor"
        THEN Append(toastMessages2, "payable_accounts_should_assign_with_vendors")
        ELSE toastMessages2
      newErrors2 ==
        IF contact # {}
        THEN setEntriesErrors(newErrors1, errorOf(contact).meta.indexes,
                              "contact_id", "error")
        ELSE newErrors1
      newErrors ==
        IF journal # {}
        THEN setWith(newErrors2, <<"journal_number">>,
                     "journal_number_is_already_used")
        ELSE newErrors2
  IN  [ setErrors |-> << Spread(<<>>, newErrors) >>,
        toasts |-> IF Len(toastMessages) > 0 THEN <<toastMessages>> ELSE <<>> ]

transformErrors_Call(p) ==
  /\ req[p].op = "transformErrors" /\ req[p].pc = "call"
  /\ LET calls == transformErrors(req[p].form.resErrors, req[p].form.errors)
     IN  req' = [req EXCEPT ![p].pc = "done",
                           ![p].form.setErrors = calls.setErrors,
                           ![p].form.toasts = calls.toasts]
  /\ UNCHANGED <<categories, nextId, items>>

\* ---- the login throttler: config.throttler.login, and the limiter that
\* uses it

throttler ==
  [ login |-> [points |-> 5, duration |-> 60 * 60 * 24 * 1,
               blockDuration |-> 60 * 15],
    requests |-> [points |-> 60, duration |-> 60, blockDuration |-> 60 * 10] ]

\* A login of client p fails: a point is consumed; the first point starts the
\* duration, a point beyond `points` blocks the client for blockDuration.
login_Fails(p) ==
  /\ req[p].pc = "idle"
  /\ req[p].throttle.consumedPoints <= throttler.login.points
  /\ LET th == req[p].throttle
         consumed == th.consumedPoints + 1
     IN  req' = [req EXCEPT
                   ![p].op = "login",
                   ![p].throttle =
                     [th EXCEPT
                        !.consumedPoints = consumed,
                        !.firstFail = IF th.consumedPoints = 0 THEN th.now ELSE @,
                        !.blockedUntil =
                          IF consumed > throttler.login.points
                          THEN th.now + throttler.login.blockDuration ELSE @]]
  /\ UNCHANGED <<categories, nextId, items>>

\* A quarter of a day passes: the points are dropped when `duration` has
\* passed since the first failure, the block when its time has come.
throttler_Tick(p) ==
  /\ req[p].pc = "idle"
  /\ req[p].throttle.now < MaxTicks * 60 * 60 * 6
  /\ LET th == req[p].throttle
         now == th.now + 60 * 60 * 6
         expired == /\ th.consumedPoints > 0
                    /\ now >= th.firstFail + throttler.login.duration
         unblocked == th.blockedUntil # NULL /\ now >= th.blockedUntil
     IN  req' = [req EXCEPT
                   ![p].op = "login",
                   ![p].throttle =
                     [ now |-> now,
                       consumedPoints |-> IF expired THEN 0 ELSE th.consumedPoints,
                       firstFail |-> IF expired THEN NULL ELSE th.firstFail,
                       blockedUntil |->
                         IF unblocked THEN NULL ELSE th.blockedUntil ]]
  /\ UNCHANGED <<categories, nextId, items>>

\* ---- the items service (outside this service): an item is filed under a
\* stored category of its tenant, between two requests of this service.
AssociateItem(tenantId, itemId, itemCategoryId) ==
  /\ NoRequestInFlight
  /\ findById(tenantId, itemCategoryId) # {}
  /\ items' = [items EXCEPT ![tenantId] =
                 { IF i.id = itemId
                   THEN [i EXCEPT !.category_id = itemCategoryId]
                   ELSE i : i \in @ }]
  /\ UNCHANGED <<categories, nextId, req>>

\* ---------------------------------------------------------------- inputs

\* The tenant whose users send requests.
TenantInputs == {1}

\* Category payloads without account references.
OTDs ==
  { [name |-> n, sellAccountId |-> NULL, costAccountId |-> NULL,
     inventoryAccountId |-> NULL] : n \in Names }

\* A payload that no validation lets through: its sell account is not stored.
InvalidOTDs ==
  { [name |-> n, sellAccountId |-> 9, costAccountId |-> NULL,
     inventoryAccountId |-> NULL] : n \in {"a"} }

\* Id lists of a bulk delete: repeats and ids that are not stored included.
IdLists == UNION { [1..n -> 1..(MaxCategoryId + 1)] : n \in 0..MaxBulkLen }

\* Category payloads of one name whose account references are absent, 0, an
\* account of the required role, an account of another role, or no account.
AccountOTDs ==
  { [name |-> "a", sellAccountId |-> s, costAccountId |-> c,
     inventoryAccountId |-> i] :
      s \in {NULL, 0, 1, 2, 9}, c \in {NULL, 0, 2, 3, 9}, i \in {NULL, 0, 3, 4, 9} }

\* Payloads for requests of both tenants: the names without account
\* references, and a name with account 3 to sell to (an asset account of
\* tenant 1, the income account of tenant 2).
TenantOTDs ==
  OTDs \cup { [name |-> "b", sellAccountId |-> 3, costAccountId |-> NULL,
               inventoryAccountId |-> NULL] }

\* Section totals: small amounts of either sign, and those of the statement
\* with income 1000, cost of sales 400 and expenses 300.
SectionTotals == (-MaxTotal..MaxTotal) \cup {300, 400, 1000}

\* The users who send the requests of both tenants.
AuthorizedUsers == {5, 6}

\* Vendors: the fields a VENDOR_SET carries (none, or a name), and the rows
\* of a fetched list (an id, with or without a name).
VendorIds == 1..MaxVendorId
VendorFields == { <<>>, [name |-> "y"] }
VendorRows ==
  { Spread([id |-> i], f) : i \in VendorIds, f \in { <<>>, [name |-> "x"] } }
VendorLists == UNION { [1..n -> VendorRows] : n \in 0..2 }

\* The actions dispatched to the vendors store.
VendorActions ==
  { [type |-> "VENDOR_SET", id |-> i, vendor |-> f] :
      i \in VendorIds, f \in VendorFields }
  \cup { [type |-> "VENDORS_ITEMS_SET", vendors |-> l] : l \in VendorLists }
  \cup { [type |-> "VENDOR_DELETE", id |-> i] : i \in VendorIds }
  \cup { [type |-> "VENDORS_TABLE_LOADING", loading |-> b] : b \in BOOLEAN }
  \cup { [type |-> "VENDORS_SET_CURRENT_VIEW", currentViewId |-> v] : v \in {-1, 1} }
  \cup { [type |-> "VENDOR_SELECTED_ROWS_SET", selectedRows |-> r] :
           r \in {<<>>, <<1>>} }
  \cup { [type |-> "VENDORS_PAGE_SET", customViewId |-> 0, page |-> 1,
          vendors |-> <<[id |-> 1]>>] }

\* The 1-based indexes an API error reports: every non-empty set of entries,
\* in ascending order.
IndexLists ==
  { CHOOSE l \in [1..Cardinality(S) -> S] :
      \A i, j \in 1..Cardinality(S) : i < j => l[i] < l[j] :
    S \in SUBSET (1..MaxIndex) \ {{}} }

\* The errors of an API response to a journal form.
ApiErrors ==
  { [type |-> ERROR.RECEIVABLE_ENTRIES_HAS_NO_CUSTOMERS, indexes |-> l] :
      l \in IndexLists }
  \cup { [type |-> ERROR.ENTRIES_SHOULD_ASSIGN_WITH_CONTACT,
           meta |-> [contact_type |-> c, indexes |-> l]] :
           c \in {"customer", "vendor", "other"}, l \in IndexLists }
  \cup { [type |-> ERROR.JOURNAL_NUMBER_ALREADY_EXISTS],
          [type |-> ERROR.CREDIT_DEBIT_SUMATION_SHOULD_NOT_EQUAL_ZERO] }

ResErrorLists == UNION { [1..n -> ApiErrors] : n \in 0..MaxErrors }

\* The errors the form shows before the call: none; a date error and entries
\* errors of rows 0 and 1; a date error and a journal number error.
FormErrors ==
  { <<>>,
    [ date |-> "required",
      entries |-> [k \in {0, 1} |-> IF k = 0 THEN [contact_id |-> "error"]
                                             ELSE [credit |-> "error"]] ],
    [ date |-> "required", journal_number |-> "required" ] }

\* ------------------------------------------------------- specifications

\* One request at a time (worker 1): get, list, create, edit, delete and bulk delete of
\* tenant 1, with items filed under categories between the requests.
Next ==
  \/ \E t \in TenantInputs, otd \in OTDs \cup InvalidOTDs, u \in Users :
       newItemCategory_Call(1, t, otd, u)
  \/ \E t \in TenantInputs, id \in CategoryIdInputs,
        otd \in OTDs \cup InvalidOTDs, u \in Users :
       editItemCategory_Call(1, t, id, otd, u)
  \/ \E t \in TenantInputs, id \in CategoryIdInputs :
       getItemCategory_Call(1, t, id)
  \/ \E t \in TenantInputs :
       getItemCategoriesList_Call(1, t)
  \/ \E t \in TenantInputs, id \in CategoryIdInputs :
       deleteItemCategory_Call(1, t, id)
  \/ \E t \in TenantInputs, ids \in IdLists :
       deleteItemCategories_Call(1, t, ids)
  \/ \E t \in TenantInputs, i \in ItemIds, c \in 1..MaxCategoryId :
       AssociateItem(t, i, c)
  \/ getItemCategory_Get(1)
  \/ getItemCategoriesList_DynamicList(1)
  \/ getItemCategoriesList_Query(1)
  \/ newItemCategory_Validate(1)
  \/ newItemCategory_Insert(1)
  \/ newItemCategory_Dispatch(1)
  \/ editItemCategory_Get(1)
  \/ editItemCategory_Validate(1)
  \/ editItemCategory_Patch(1)
  \/ editItemCategory_Dispatch(1)
  \/ deleteItemCategory_Get(1)
  \/ deleteItemCategory_Unassociate(1)
  \/ deleteItemCategory_Delete(1)
  \/ deleteItemCategory_Dispatch(1)
  \/ deleteItemCategories_Get(1)
  \/ deleteItemCategories_Unassociate(1)
  \/ deleteItemCategories_Delete(1)
  \/ deleteItemCategories_Dispatch(1)

Spec == Init /\ [][Next]_vars

\* One request at a time: create and edit of tenant 1, by user 5, with every
\* combination of account references.
NextAccounts ==
  \/ \E t \in TenantInputs, otd \in AccountOTDs :
       newItemCategory_Call(1, t, otd, 5)
  \/ \E t \in TenantInputs, id \in CategoryIdInputs, otd \in AccountOTDs :
       editItemCategory_Call(1, t, id, otd, 5)
  \/ newItemCategory_Validate(1)
  \/ newItemCategory_Insert(1)
  \/ newItemCategory_Dispatch(1)
  \/ editItemCategory_Get(1)
  \/ editItemCategory_Validate(1)
  \/ editItemCategory_Patch(1)
  \/ editItemCategory_Dispatch(1)

SpecAccounts == Init /\ [][NextAccounts]_vars

\* The requests of Spec, each of whose awaited calls may reject.
NextFaults ==
  \/ Next
  \/ AwaitRejects(1)

SpecFaults == Init /\ [][NextFaults]_vars

\* One request at a time, of either tenant: create and delete, with item 1 of
\* a tenant filed under its categories between the requests.
NextTenants ==
  \/ \E t \in Tenants, otd \in TenantOTDs, u \in AuthorizedUsers :
       newItemCategory_Call(1, t, otd, u)
  \/ \E t \in Tenants, id \in 1..MaxCategoryId :
       deleteItemCategory_Call(1, t, id)
  \/ \E t \in Tenants, c \in 1..MaxCategoryId :
       AssociateItem(t, 1, c)
  \/ newItemCategory_Validate(1)
  \/ newItemCategory_Insert(1)
  \/ newItemCategory_Dispatch(1)
  \/ deleteItemCategory_Get(1)
  \/ deleteItemCategory_Unassociate(1)
  \/ deleteItemCategory_Delete(1)
  \/ deleteItemCategory_Dispatch(1)

SpecTenants == Init /\ [][NextTenants]_vars

\* A statement query of tenant 1 whose four sections are summed, with every
\* combination of section totals.
InitProfitLoss ==
  /\ categories = [t \in Tenants |-> {}]
  /\ nextId = [t \in Tenants |-> 1]
  /\ items = [t \in Tenants |-> {}]
  /\ \E i, c, e, o \in SectionTotals :
       req = [p \in Procs |->
                IF p = 1
                THEN [IdleRequest EXCEPT
                        !.op = "profitLossSheet", !.pc = "totals",
                        !.tenantId = 1,
                        !.statement =
                          [NoStatement EXCEPT !.income = i, !.costOfSales = c,
                                              !.expenses = e,
                                              !.otherExpenses = o]]
                ELSE IdleRequest]

NextProfitLoss == profitLossSheet_Totals(1)

SpecProfitLoss == InitProfitLoss /\ [][NextProfitLoss]_vars

\* Two requests at a time (workers 1 and 2) of tenant 1: create, edit and
\* delete, whose awaited calls interleave in any order.
NextConcurrent ==
  \/ \E p \in Procs, t \in TenantInputs, otd \in OTDs, u \in Users :
       newItemCategory_Call(p, t, otd, u)
  \/ \E p \in Procs, t \in TenantInputs, id \in 1..MaxCategoryId,
        otd \in OTDs, u \in Users :
       editItemCategory_Call(p, t, id, otd, u)
  \/ \E p \in Procs, t \in TenantInputs, id \in 1..MaxCategoryId :
       deleteItemCategory_Call(p, t, id)
  \/ \E p \in Procs : newItemCategory_Validate(p)
  \/ \E p \in Procs : newItemCategory_Insert(p)
  \/ \E p \in Procs : newItemCategory_Dispatch(p)
  \/ \E p \in Procs : editItemCategory_Get(p)
  \/ \E p \in Procs : editItemCategory_Validate(p)
  \/ \E p \in Procs : editItemCategory_Patch(p)
  \/ \E p \in Procs : editItemCategory_Dispatch(p)
  \/ \E p \in Procs : deleteItemCategory_Get(p)
  \/ \E p \in Procs : deleteItemCategory_Unassociate(p)
  \/ \E p \in Procs : deleteItemCategory_Delete(p)
  \/ \E p \in Procs : deleteItemCategory_Dispatch(p)

SpecConcurrent == Init /\ [][NextConcurrent]_vars

\* Each of two clients calls one item thunk; every API request completes.
NextThunks ==
  \/ \E p \in Procs : fetchItems_Call(p)
  \/ \E p \in Procs, id \in ItemIds : fetchItem_Call(p, id)
  \/ \E p \in Procs, results \in SUBSET ItemIds : fetchItems_Then(p, results)
  \/ \E p \in Procs : fetchItems_Catch(p)
  \/ \E p \in Procs : fetchItem_Then(p)
  \/ \E p \in Procs : fetchItem_Catch(p)

SpecThunks ==
  Init /\ [][NextThunks]_vars /\ \A p \in Procs : WF_vars(ApiResponds(p))

\* Any sequence of actions dispatched to the vendors store of client 1.
NextVendors == \E action \in VendorActions : vendors_Dispatch(1, action)

SpecVendors == Init /\ [][NextVendors]_vars

\* A journal form of client 1 whose submit failed: transformErrors is called
\* with every list of API errors and every set of form errors.
InitTransformErrors ==
  /\ categories = [t \in Tenants |-> {}]
  /\ nextId = [t \in Tenants |-> 1]
  /\ items = [t \in Tenants |-> {}]
  /\ \E resErrors \in ResErrorLists, errors \in FormErrors :
       req = [p \in Procs |->
                IF p = 1
                THEN [IdleRequest EXCEPT
                        !.op = "transformErrors", !.pc = "call",
                        !.form = [NoForm EXCEPT !.resErrors = resErrors,
                                                !.errors = errors]]
                ELSE IdleRequest]

NextTransformErrors == transformErrors_Call(1)

SpecTransformErrors == InitTransformErrors /\ [][NextTransformErrors]_vars

\* The failed logins of one client, and the passing of time.
NextThrottler ==
  \/ login_Fails(1)
  \/ throttler_Tick(1)

SpecThrottler == Init /\ [][NextThrottler]_vars

\* ================================================================ claims

NameStored(tenantId, name) == \E c \in categories[tenantId] : c.name = name
StoreUnchanged ==
  categories' = categories /\ items' = items /\ nextId' = nextId

\* C1: newItemCategory called with a name that a stored category of the same
\* tenant already has ends with CATEGORY_NAME_EXISTS, and the step that ends
\* it writes nothing: categories, items and the id counter are unchanged.
C1_DuplicateNameFailsWithoutWrite ==
  [][ \A p \in Procs :
        ( /\ req[p].op = "newItemCategory"
          /\ req[p].pc = "validate"
          /\ NameStored(req[p].tenantId, req[p].otd.name) )
        => ( /\ req'[p].pc = "done"
             /\ req'[p].error.errorType = ERRORS.CATEGORY_NAME_EXISTS
             /\ StoreUnchanged ) ]_vars

\* A create of tenant 1 ended with CATEGORY_NAME_EXISTS.
C1_Witness ==
  /\ req[1].op = "newItemCategory"
  /\ req[1].pc = "done"
  /\ req[1].tenantId = 1
  /\ req[1].error.errorType = ERRORS.CATEGORY_NAME_EXISTS
  /\ categories[1] # {}

\* C2: in every state reached by requests served one at a time, no two
\* stored categories of a tenant have the same name (nor the same id).
C2_NamesUniquePerTenant ==
  \A t \in Tenants :
    \A c1, c2 \in categories[t] :
      (c1.name = c2.name \/ c1.id = c2.id) => c1 = c2

\* Tenant 1 holds two categories and an edit has just succeeded.
C2_Witness ==
  /\ Cardinality(categories[1]) = 2
  /\ req[1].op = "editItemCategory"
  /\ req[1].pc = "done"
  /\ req[1].error = NoError

\* C3: when an edit reaches the name check, it does not end with
\* CATEGORY_NAME_EXISTS if the edited category itself holds the name, and it
\* ends with CATEGORY_NAME_EXISTS if another category of the tenant holds it.
C3_EditExcludesSelf ==
  [][ \A p \in Procs :
        ( req[p].op = "editItemCategory" /\ req[p].pc = "validate" )
        => LET t == req[p].tenantId
               own == \E c \in categories[t] :
                        c.id = req[p].id /\ c.name = req[p].otd.name
               other == \E c \in categories[t] :
                          c.id # req[p].id /\ c.name = req[p].otd.name
           IN  /\ own => req'[p].error.errorType # ERRORS.CATEGORY_NAME_EXISTS
               /\ other => ( /\ req'[p].pc = "done"
                             /\ req'[p].error.errorType
                                  = ERRORS.CATEGORY_NAME_EXISTS ) ]_vars

\* An edit of a category with its own current name passed the name check,
\* while the tenant holds another category too.
C3_Witness ==
  /\ req[1].op = "editItemCategory"
  /\ req[1].pc = "patch"
  /\ \E c \in categories[1] : c.id = req[1].id /\ c.name = req[1].otd.name
  /\ Cardinality(categories[1]) = 2

\* A create or an edit of worker p is at its validation step.
AtValidate(p) ==
  req[p].op \in {"newItemCategory", "editItemCategory"} /\ req[p].pc = "validate"

\* A category other than the one the request edits holds the request's name
\* (a create edits none: its id is NULL).
NameHeldByOther(p) ==
  \E c \in categories[req[p].tenantId] :
    c.name = req[p].otd.name /\ c.id # req[p].id

AccountOf(tenantId, accountId) ==
  { a \in Accounts(tenantId) : a.id = accountId }

\* C4: a create or an edit that reaches validation with a name no other
\* category holds and a sellAccountId of a stored account whose root type is
\* not income ends with SELL_ACCOUNT_NOT_INCOME, and writes nothing.
C4_SellAccountNotIncome ==
  [][ \A p \in Procs :
        ( /\ AtValidate(p)
          /\ ~NameHeldByOther(p)
          /\ \E a \in AccountOf(req[p].tenantId, req[p].otd.sellAccountId) :
               a.rootType # "income" )
        => ( /\ req'[p].pc = "done"
             /\ req'[p].error.errorType = ERRORS.SELL_ACCOUNT_NOT_INCOME
             /\ StoreUnchanged ) ]_vars

\* An edit ended with SELL_ACCOUNT_NOT_INCOME.
C4_Witness ==
  /\ req[1].op = "editItemCategory"
  /\ req[1].pc = "done"
  /\ req[1].error.errorType = ERRORS.SELL_ACCOUNT_NOT_INCOME

\* The rules of create/edit that the request of worker p violates, each named
\* by the error code the claim gives it.
ViolatedRules(p) ==
  LET t == req[p].tenantId
      sell == req[p].otd.sellAccountId
      cost == req[p].otd.costAccountId
      inventory == req[p].otd.inventoryAccountId
  IN  { code \in
          { ERRORS.CATEGORY_NAME_EXISTS, ERRORS.SELL_ACCOUNT_NOT_FOUND,
            ERRORS.SELL_ACCOUNT_NOT_INCOME, ERRORS.COST_ACCOUNT_NOT_FOUMD,
            ERRORS.COST_ACCOUNT_NOT_COGS, ERRORS.INVENTORY_ACCOUNT_NOT_FOUND,
            ERRORS.INVENTORY_ACCOUNT_NOT_INVENTORY } :
          \/ code = ERRORS.CATEGORY_NAME_EXISTS /\ NameHeldByOther(p)
          \/ /\ code = ERRORS.SELL_ACCOUNT_NOT_FOUND
             /\ sell # NULL /\ AccountOf(t, sell) = {}
          \/ /\ code = ERRORS.SELL_ACCOUNT_NOT_INCOME
             /\ \E a \in AccountOf(t, sell) : a.rootType # "income"
          \/ /\ code = ERRORS.COST_ACCOUNT_NOT_FOUMD
             /\ cost # NULL /\ AccountOf(t, cost) = {}
          \/ /\ code = ERRORS.COST_ACCOUNT_NOT_COGS
             /\ \E a \in AccountOf(t, cost) : a.rootType # "expense"
          \/ /\ code = ERRORS.INVENTORY_ACCOUNT_NOT_FOUND
             /\ inventory # NULL /\ AccountOf(t, inventory) = {}
          \/ /\ code = ERRORS.INVENTORY_ACCOUNT_NOT_INVENTORY
             /\ \E a \in AccountOf(t, inventory) : a.accountType # "inventory" }

\* C5: a create or an edit that violates exactly one rule (duplicate name; a
\* sell, cost or inventory account id that is not stored; a stored account of
\* the wrong role) ends with the error code of that rule, and an error code
\* is thrown only for a request that violates its rule.
C5_DistinctErrorPerViolatedRule ==
  [][ \A p \in Procs :
        AtValidate(p)
        => /\ \A code \in ViolatedRules(p) :
                ViolatedRules(p) = {code}
                => req'[p].pc = "done" /\ req'[p].error.errorType = code
           /\ req'[p].pc = "done"
                => req'[p].error.errorType \in ViolatedRules(p) ]_vars

\* C6: every stored category's non-null account references refer to stored
\* accounts of the required role (the accounts never change, so a reference
\* that is valid when written stays valid).
C6_WrittenAccountReferencesValid ==
  \A t \in Tenants :
    \A c \in categories[t] :
      /\ c.sellAccountId # NULL
           => \E a \in AccountOf(t, c.sellAccountId) : a.rootType = "income"
      /\ c.costAccountId # NULL
           => \E a \in AccountOf(t, c.costAccountId) : a.rootType = "expense"
      /\ c.inventoryAccountId # NULL
           => \E a \in AccountOf(t, c.inventoryAccountId) :
                a.accountType = "inventory"

\* The ids a delete or a bulk delete names.
NamedIds(p) ==
  IF req[p].op = "deleteItemCategory" THEN {req[p].id} ELSE Range(req[p].ids)

ItemsOf(tenantId, ids) == { i \in items[tenantId] : i.category_id \in ids }

\* C7: in every state, intermediate states of a delete included, every item's
\* category_id is null or the id of a stored category of its tenant; once
\* deleteItemCategory has unassociated, no item references its category, and
\* once it has removed the row the row is gone.
C7_ItemsClearedBeforeRowRemoved ==
  /\ \A t \in Tenants :
       \A i \in items[t] :
         i.category_id # NULL => findById(t, i.category_id) # {}
  /\ \A p \in Procs :
       ( /\ req[p].op = "deleteItemCategory"
         /\ req[p].pc \in {"delete", "dispatch", "done"}
         /\ req[p].error = NoError )
       => /\ ItemsOf(req[p].tenantId, {req[p].id}) = {}
          /\ req[p].pc # "delete" => findById(req[p].tenantId, req[p].id) = {}

\* A delete removed the row of a category after clearing an item that was
\* filed under it.
C7_Witness ==
  /\ req[1].op = "deleteItemCategory"
  /\ req[1].pc = "dispatch"
  /\ req[1].patched > 0
  /\ findById(1, req[1].id) = {}

\* C8: a step of deleteItemCategory or deleteItemCategories removes no item,
\* changes no item field but category_id, changes category_id only from a
\* named id to null and only in the request's tenant, and removes no category
\* but the named ones of that tenant (and adds or alters none).
C8_DeleteIsNotCascaded ==
  [][ \A p \in Procs :
        ( /\ req[p].op \in {"deleteItemCategory", "deleteItemCategories"}
          /\ ~Finished(p) )
        => \A t \in Tenants :
             /\ \A i \in items[t] :
                  \E j \in items'[t] :
                    /\ j.id = i.id
                    /\ j.name = i.name
                    /\ \/ j.category_id = i.category_id
                       \/ /\ t = req[p].tenantId
                          /\ i.category_id \in NamedIds(p)
                          /\ j.category_id = NULL
             /\ Cardinality(items'[t]) = Cardinality(items[t])
             /\ categories'[t] \subseteq categories[t]
             /\ \A c \in categories[t] :
                  (t # req[p].tenantId \/ c.id \notin NamedIds(p))
                  => c \in categories'[t] ]_vars

\* A bulk delete cleared an item of a named category while another item of
\* the tenant keeps its category and that category is still stored.
C8_Witness ==
  /\ req[1].op = "deleteItemCategories"
  /\ req[1].pc = "done"
  /\ req[1].error = NoError
  /\ req[1].patched > 0
  /\ \E i \in items[1] : i.category_id # NULL
  /\ categories[1] # {}

\* C9: deleteItemCategories with a list of which some id is not stored ends
\* at its first step with an error and writes nothing: no category is deleted
\* and no item is changed.
C9_BulkDeleteFailsEntirely ==
  [][ \A p \in Procs :
        ( /\ req[p].op = "deleteItemCategories"
          /\ req[p].pc = "get"
          /\ \E id \in Range(req[p].ids) : findById(req[p].tenantId, id) = {} )
        => ( /\ req'[p].pc = "done"
             /\ req'[p].error.errorType = ERRORS.ITEM_CATEGORIES_NOT_FOUND
             /\ StoreUnchanged ) ]_vars

\* A bulk delete failed on a list that names a stored category, with an item
\* filed under it, beside a missing id.
C9_Witness ==
  /\ req[1].op = "deleteItemCategories"
  /\ req[1].pc = "done"
  /\ req[1].error.errorType = ERRORS.ITEM_CATEGORIES_NOT_FOUND
  /\ \E id \in Range(req[1].ids) :
       findById(1, id) # {} /\ ItemsOf(1, {id}) # {}

\* C10: the error of a bulk delete that failed for missing ids carries the
\* ids of the list that are not stored.
C10_ErrorReportsMissingIds ==
  \A p \in Procs :
    ( /\ req[p].op = "deleteItemCategories"
      /\ req[p].pc = "done"
      /\ req[p].error.errorType = ERRORS.ITEM_CATEGORIES_NOT_FOUND )
    => Range(req[p].error.payload)
         = { id \in Range(req[p].ids) : findById(req[p].tenantId, id) = {} }

\* C11: getItemCategory, editItemCategory and deleteItemCategory of an id
\* that is not stored in the tenant end at their first step with
\* CATEGORY_NOT_FOUND, whatever the payload of the edit is (a name another
\* category holds, an account that is not stored), and write nothing.
C11_MissingCategoryNotFound ==
  [][ \A p \in Procs :
        ( /\ req[p].op \in {"getItemCategory", "editItemCategory",
                            "deleteItemCategory"}
          /\ req[p].pc = "get"
          /\ \A c \in categories[req[p].tenantId] : c.id # req[p].id )
        => ( /\ req'[p].pc = "done"
             /\ req'[p].error.errorType = ERRORS.CATEGORY_NOT_FOUND
             /\ StoreUnchanged ) ]_vars

\* An edit of an id that is not stored ended with CATEGORY_NOT_FOUND while
\* the tenant holds categories.
C11_Witness ==
  /\ req[1].op = "editItemCategory"
  /\ req[1].pc = "done"
  /\ req[1].error.errorType = ERRORS.CATEGORY_NOT_FOUND
  /\ Cardinality(categories[1]) = 2
  /\ \A c \in categories[1] : c.id # req[1].id

\* C12: every step at which a create, edit, delete or bulk delete ends with
\* an error (a named condition, or the failure of a step) leaves the
\* categories and the items of the tenant as they were when the operation
\* was called.
C12_FailuresLeaveStateUnchanged ==
  [][ \A p \in Procs :
        ( /\ req[p].op \in {"newItemCategory", "editItemCategory",
                            "deleteItemCategory", "deleteItemCategories"}
          /\ ~Finished(p)
          /\ req'[p].pc = "done"
          /\ req'[p].error # NoError )
        => ( /\ categories'[req[p].tenantId] = req[p].before.categories
             /\ items'[req[p].tenantId] = req[p].before.items ) ]_vars

\* The operations that write, and the event each of them dispatches.
WriteOps ==
  {"newItemCategory", "editItemCategory", "deleteItemCategory",
   "deleteItemCategories"}

EventOf(op) ==
  CASE op = "newItemCategory" -> "onCreated"
    [] op = "editItemCategory" -> "onEdited"
    [] op = "deleteItemCategory" -> "onDeleted"
    [] op = "deleteItemCategories" -> "onBulkDeleted"

\* The write of the request of worker p is in the tables.
WritePersisted(p) ==
  LET r == req[p]
      rows == categories[r.tenantId]
  IN  CASE r.op = "newItemCategory" ->
             \E c \in rows : /\ c.id = r.ret
                             /\ c.name = r.otd.name
                             /\ c \notin r.before.categories
        [] r.op = "editItemCategory" ->
             \E c \in rows : c.id = r.id /\ c.name = r.otd.name
        [] r.op = "deleteItemCategory" ->
             /\ \A c \in rows : c.id # r.id
             /\ \E c \in r.before.categories : c.id = r.id
        [] r.op = "deleteItemCategories" ->
             \A c \in rows : c.id \notin Range(r.ids)

\* C13: a write operation that succeeds has dispatched exactly one event, of
\* its own kind, at its last step, when its write was in the tables; no
\* event is dispatched before that step, and an operation that ends with an
\* error has dispatched none.
C13_OneEventAfterWrite ==
  [][ \A p \in Procs :
        (req[p].op \in WriteOps /\ ~Finished(p))
        => IF req'[p].pc = "done" /\ req'[p].error = NoError
           THEN /\ req[p].events = <<>>
                /\ req'[p].events = <<EventOf(req[p].op)>>
                /\ WritePersisted(p)
                /\ StoreUnchanged
           ELSE req'[p].events = <<>> ]_vars

\* A bulk delete of stored categories succeeded and dispatched its event.
C13_Witness ==
  /\ req[1].op = "deleteItemCategories"
  /\ req[1].pc = "done"
  /\ req[1].error = NoError
  /\ req[1].ids # <<>>
  /\ req[1].events = <<"onBulkDeleted">>

\* C14: the outcome of a write operation does not depend on the dispatch of
\* its event: an operation that has persisted its write and stands at the
\* dispatch ends with success, whether the dispatch succeeds or rejects.
C14_DispatchIsFireAndForget ==
  [][ \A p \in Procs :
        ( /\ req[p].op \in WriteOps
          /\ req[p].pc = "dispatch"
          /\ WritePersisted(p)
          /\ req'[p].pc = "done" )
        => req'[p].error = NoError ]_vars

C16_ProfitLossTotals ==
  \A p \in Procs :
    (req[p].op = "profitLossSheet" /\ req[p].pc = "done")
    => LET st == req[p].statement
       IN  /\ st.grossProfit = st.income - st.costOfSales
           /\ st.operatingProfit = st.income - st.costOfSales - st.expenses
           /\ st.netIncome =
                st.income - st.costOfSales - st.expenses - st.otherExpenses
           /\ ( /\ st.income = 1000 /\ st.costOfSales = 400
                /\ st.expenses = 300 /\ st.otherExpenses = 0 )
              => ( /\ st.grossProfit = 600
                   /\ st.operatingProfit = 300
                   /\ st.netIncome = 300 )

\* The statement of income 1000, cost of sales 400 and expenses 300 has its
\* totals.
C16_Witness ==
  /\ req[1].op = "profitLossSheet"
  /\ req[1].pc = "done"
  /\ req[1].statement.income = 1000
  /\ req[1].statement.costOfSales = 400
  /\ req[1].statement.expenses = 300
  /\ req[1].statement.otherExpenses = 0
  /\ req[1].statement.netIncome = 300

\* C17: no stored category carries an item count; the count that
\* getItemCategoriesList returns for a category is the number of items filed
\* under it when the list is queried (0 for a category without items), and
\* no step of getItemCategoriesList or getItemCategory changes a category or
\* an item.
C17_ItemCountDerived ==
  [][ \A p \in Procs :
        LET r == req[p]
            t == r.tenantId
        IN  (r.op \in {"getItemCategoriesList", "getItemCategory"} /\ ~Finished(p))
            => /\ StoreUnchanged
               /\ \A c \in categories[t] : "count" \notin DOMAIN c
               /\ (r.op = "getItemCategoriesList" /\ r.pc = "query")
                    => /\ req'[p].pc = "done"
                       /\ req'[p].error = NoError
                       /\ { row.id : row \in req'[p].itemCategories } =
                            { c.id : c \in categories'[t] }
                       /\ \A row \in req'[p].itemCategories :
                            row.count =
                              Cardinality({ i \in ItemIds :
                                \E it \in items'[t] :
                                  it.id = i /\ it.category_id = row.id }) ]_vars

\* A list was returned in which one category has every item of the tenant
\* and another, none of whose items is left, has count 0.
C17_Witness ==
  /\ req[1].op = "getItemCategoriesList"
  /\ req[1].pc = "done"
  /\ \E row \in req[1].itemCategories : row.count = 0
  /\ \E row \in req[1].itemCategories : row.count = NumItems

\* The rules of create/edit in the order in which the claim has them checked.
RuleOrder ==
  << ERRORS.CATEGORY_NAME_EXISTS,
     ERRORS.SELL_ACCOUNT_NOT_FOUND, ERRORS.SELL_ACCOUNT_NOT_INCOME,
     ERRORS.COST_ACCOUNT_NOT_FOUMD, ERRORS.COST_ACCOUNT_NOT_COGS,
     ERRORS.INVENTORY_ACCOUNT_NOT_FOUND, ERRORS.INVENTORY_ACCOUNT_NOT_INVENTORY >>

\* The earliest rule in that order among the rules the request violates.
FirstViolated(p) ==
  LET k == CHOOSE k \in DOMAIN RuleOrder :
             /\ RuleOrder[k] \in ViolatedRules(p)
             /\ \A j \in 1..(k - 1) : RuleOrder[j] \notin ViolatedRules(p)
  IN  RuleOrder[k]

\* C18: a create or an edit that violates several rules ends at its
\* validation with the error of the earliest violated rule in the order name,
\* sell account (existence, then role), cost account, inventory account, and
\* writes nothing.
C18_FirstViolationReported ==
  [][ \A p \in Procs :
        (AtValidate(p) /\ Cardinality(ViolatedRules(p)) > 1)
        => ( /\ req'[p].pc = "done"
             /\ req'[p].error.errorType = FirstViolated(p)
             /\ StoreUnchanged ) ]_vars

\* C19: a create with a name that no category of the tenant holds and without
\* account references passes its validation, inserts exactly one row - a new
\* id, the name, no account references, the authorized user's id - next to
\* the unchanged rows, and ends with success.
C19_CreateWithoutAccountsSucceeds ==
  [][ \A p \in Procs :
        LET r == req[p]
            t == r.tenantId
            row == [ id |-> nextId[t], name |-> r.otd.name,
                     sellAccountId |-> NULL, costAccountId |-> NULL,
                     inventoryAccountId |-> NULL, userId |-> r.userId ]
        IN  ( /\ r.op = "newItemCategory" /\ ~Finished(p)
              /\ r.otd.sellAccountId = NULL
              /\ r.otd.costAccountId = NULL
              /\ r.otd.inventoryAccountId = NULL
              /\ \A c \in r.before.categories : c.name # r.otd.name )
            => /\ r.pc = "validate" => req'[p].pc = "insert" /\ StoreUnchanged
               /\ r.pc = "insert"
                    => /\ req'[p].pc = "dispatch"
                       /\ \A c \in categories[t] : c.id # row.id
                       /\ categories'[t] = r.before.categories \cup {row}
                       /\ items' = items
               /\ r.pc = "dispatch"
                    => /\ req'[p].pc = "done"
                       /\ req'[p].error = NoError
                       /\ req'[p].ret \notin { c.id : c \in r.before.categories }
                       /\ \E c \in categories'[t] :
                            c.id = req'[p].ret /\ c \notin r.before.categories
                       /\ Cardinality(categories'[t]) =
                            Cardinality(r.before.categories) + 1 ]_vars

\* User 6 created a category without account references next to a stored
\* category of the tenant.
C19_Witness ==
  /\ req[1].op = "newItemCategory"
  /\ req[1].pc = "done"
  /\ req[1].error = NoError
  /\ Cardinality(categories[req[1].tenantId]) = 2
  /\ \E c \in categories[req[1].tenantId] :
       /\ c.id = req[1].ret
       /\ c.userId = 6
       /\ c.sellAccountId = NULL

\* C20: a bulk delete whose ids are all stored (the list may be empty or
\* repeat an id) passes its check, clears category_id on exactly the items
\* filed under a listed category, removes exactly the listed categories, and
\* ends with success having dispatched onBulkDeleted once.
C20_BulkDeleteRemovesNamed ==
  [][ \A p \in Procs :
        LET r == req[p]
            t == r.tenantId
            ids == Range(r.ids)
        IN  ( /\ r.op = "deleteItemCategories" /\ ~Finished(p)
              /\ ids \subseteq { c.id : c \in r.before.categories } )
            => /\ r.pc = "get" => req'[p].pc = "unassociate" /\ StoreUnchanged
               /\ r.pc = "unassociate" => req'[p].pc = "delete"
               /\ r.pc = "delete" => req'[p].pc = "dispatch"
               /\ r.pc = "dispatch"
                    => /\ req'[p].pc = "done"
                       /\ req'[p].error = NoError
                       /\ req'[p].events = <<"onBulkDeleted">>
                       /\ categories'[t] =
                            { c \in r.before.categories : c.id \notin ids }
                       /\ items'[t] =
                            { IF i.category_id \in ids
                              THEN [i EXCEPT !.category_id = NULL]
                              ELSE i : i \in r.before.items } ]_vars

\* A bulk delete that named one category twice ended with success: the
\* category is gone, its item is cleared, and the other category and its item
\* are as before.
C20_Witness ==
  /\ req[1].op = "deleteItemCategories"
  /\ req[1].pc = "done"
  /\ req[1].error = NoError
  /\ Len(req[1].ids) = MaxBulkLen
  /\ Cardinality(Range(req[1].ids)) = 1
  /\ req[1].patched = 1
  /\ Cardinality(categories[1]) = 1
  /\ \E i \in items[1], c \in categories[1] : i.category_id = c.id

\* C21: with the awaited calls of two requests interleaved in any order, no
\* tenant ever stores two categories of one name.
C21_NamesUniqueUnderInterleaving ==
  \A t \in Tenants :
    \A c1, c2 \in categories[t] : c1.name = c2.name => c1.id = c2.id

\* C22: an edit that ends with success and has dispatched onEdited returns
\* the category it patched, and that category is stored when the patch is
\* done: the step after the patch never ends an edit with success when the
\* patch found no row.
C22_SuccessfulEditChangedStoredCategory ==
  [][ \A p \in Procs :
        ( /\ req[p].op = "editItemCategory"
          /\ req[p].pc = "dispatch"
          /\ req'[p].pc = "done"
          /\ req'[p].error = NoError )
        => /\ req'[p].ret = req[p].id
           /\ req[p].ret # NULL ]_vars

\* C23: the promise that fetchItem returned eventually settles (as that of
\* fetchItems does), resolved after ITEM_SET was dispatched or rejected.
C23_FetchItemPromiseSettles ==
  \A p \in Procs :
    (req[p].op \in {"fetchItem", "fetchItems"} /\ req[p].promise = "pending")
      ~> ( \/ req[p].promise = "rejected"
           \/ req[p].promise = "resolved" /\ req[p].dispatched # <<>> )

\* C24: in the vendors store, after any sequence of actions, VENDOR_DELETE
\* of id i leaves the items without key i and every other entry as it was
\* (the state as it was when i is absent); VENDORS_ITEMS_SET sets exactly the
\* entries of the given vendors, each to the last row of its id, and keeps
\* all others; VENDOR_SET sets the given fields of entry id and keeps its
\* other fields and all other entries; none of the three changes views,
\* loading, currentViewId or selectedRows.
C24_VendorsReducerFrame ==
  [][ \A p \in Procs :
        req'[p].op = "vendors" =>
          LET a == req'[p].dispatched[1]
              old == req[p].vendors
              new == req'[p].vendors
              kept(keys) == \A k \in keys : /\ k \in DOMAIN new.items
                                            /\ new.items[k] = old.items[k]
          IN  /\ a.type \in {"VENDOR_DELETE", "VENDORS_ITEMS_SET", "VENDOR_SET"}
                   => /\ new.views = old.views
                      /\ new.loading = old.loading
                      /\ new.currentViewId = old.currentViewId
                      /\ new.selectedRows = old.selectedRows
              /\ a.type = "VENDOR_DELETE"
                   => /\ DOMAIN new.items = DOMAIN old.items \ {a.id}
                      /\ kept(DOMAIN old.items \ {a.id})
                      /\ a.id \notin DOMAIN old.items => new = old
              /\ a.type = "VENDORS_ITEMS_SET"
                   => LET ids == { a.vendors[i].id : i \in DOMAIN a.vendors }
                      IN  /\ DOMAIN new.items = DOMAIN old.items \cup ids
                          /\ kept(DOMAIN old.items \ ids)
                          /\ \A i \in DOMAIN a.vendors :
                               (\A j \in DOMAIN a.vendors :
                                  j > i => a.vendors[j].id # a.vendors[i].id)
                               => new.items[a.vendors[i].id] = a.vendors[i]
              /\ a.type = "VENDOR_SET"
                   => LET before == IF a.id \in DOMAIN old.items
                                    THEN old.items[a.id] ELSE <<>>
                          entry == new.items[a.id]
                      IN  /\ DOMAIN new.items = DOMAIN old.items \cup {a.id}
                          /\ kept(DOMAIN old.items \ {a.id})
                          /\ DOMAIN entry = DOMAIN before \cup DOMAIN a.vendor
                          /\ \A f \in DOMAIN a.vendor : entry[f] = a.vendor[f]
                          /\ \A f \in DOMAIN before \ DOMAIN a.vendor :
                               entry[f] = before[f] ]_vars

\* A VENDOR_SET gave a new name to a fetched vendor, which kept its id, next
\* to another vendor, in a store whose views, loading flag, current view and
\* selected rows had been set.
C24_Witness ==
  /\ req[1].op = "vendors"
  /\ req[1].dispatched = << [type |-> "VENDOR_SET", id |-> 1,
                             vendor |-> [name |-> "y"]] >>
  /\ DOMAIN req[1].vendors.items = VendorIds
  /\ req[1].vendors.items[1] = [id |-> 1, name |-> "y"]
  /\ req[1].vendors.views # <<>>
  /\ req[1].vendors.loading
  /\ req[1].vendors.currentViewId = 1
  /\ req[1].vendors.selectedRows # <<>>

\* The indexes reported by the errors of the list of worker p's call that
\* have one of the two types that report entries: by every such error, and
\* by the first error of each of the two types.
IndexesOf(e) ==
  IF e.type = ERROR.RECEIVABLE_ENTRIES_HAS_NO_CUSTOMERS THEN Range(e.indexes)
  ELSE IF e.type = ERROR.ENTRIES_SHOULD_ASSIGN_WITH_CONTACT
  THEN Range(e.meta.indexes)
  ELSE {}

ReportedIndexes(p) ==
  UNION { IndexesOf(req[p].form.resErrors[i]) :
            i \in DOMAIN req[p].form.resErrors }

FirstReportedIndexes(p) ==
  LET resErrors == req[p].form.resErrors
  IN  UNION { IndexesOf(resErrors[i]) :
                i \in { i \in DOMAIN resErrors :
                          \A j \in 1..(i - 1) :
                            resErrors[j].type # resErrors[i].type } }

\* What the claim says of a finished call of transformErrors whose reported
\* indexes are `reported`.
TransformErrorsAsClaimed(p, reported) ==
  LET f == req[p].form
      arg == f.setErrors[1]
      types == { f.resErrors[i].type : i \in DOMAIN f.resErrors }
      rows == { i - 1 : i \in reported }
  IN  /\ Len(f.setErrors) = 1
      /\ "entries" \in DOMAIN arg
      /\ DOMAIN arg.entries = rows
      /\ \A k \in rows : arg.entries[k] = [contact_id |-> "error"]
      /\ Cardinality(rows) = Cardinality(reported)
      /\ \A k \in DOMAIN f.errors \ {"entries", "journal_number"} :
           k \in DOMAIN arg /\ arg[k] = f.errors[k]
      /\ DOMAIN arg \subseteq DOMAIN f.errors \cup {"entries", "journal_number"}
      /\ IF ERROR.JOURNAL_NUMBER_ALREADY_EXISTS \in types
         THEN /\ "journal_number" \in DOMAIN arg
              /\ arg.journal_number = "journal_number_is_already_used"
         ELSE \/ /\ "journal_number" \notin DOMAIN arg
                 /\ "journal_number" \notin DOMAIN f.errors
              \/ /\ "journal_number" \in DOMAIN arg
                 /\ "journal_number" \in DOMAIN f.errors
                 /\ arg.journal_number = f.errors.journal_number
      /\ Len(f.toasts) <= 1
      /\ \A i \in DOMAIN f.toasts : f.toasts[i] # <<>>

\* C25 (as stated): a call of transformErrors calls setErrors once, with the
\* entries errors rebuilt and the other field errors kept; every index
\* reported by an error of the two types marks contact_id of row index - 1;
\* journal_number is set only with JOURNAL_NUMBER_ALREADY_EXISTS; a toast is
\* shown only with a message.
C25_EveryReportedIndexMarked ==
  \A p \in Procs :
    (req[p].op = "transformErrors" /\ req[p].pc = "done")
    => TransformErrorsAsClaimed(p, ReportedIndexes(p))

\* C25 (amended): the same, with the indexes reported by the first error of
\* each of the two types; a later error of a type that is already in the list
\* marks nothing.
C25_FirstErrorOfTypeMarked ==
  \A p \in Procs :
    (req[p].op = "transformErrors" /\ req[p].pc = "done")
    => TransformErrorsAsClaimed(p, FirstReportedIndexes(p))

\* A call with an error that reports entries 1 and 2 and with
\* JOURNAL_NUMBER_ALREADY_EXISTS, on a form that showed a date error and
\* entries errors, marked rows 0 and 1, set journal_number, kept the date
\* error and showed one toast.
C25_Witness ==
  /\ req[1].op = "transformErrors"
  /\ req[1].pc = "done"
  /\ ERROR.JOURNAL_NUMBER_ALREADY_EXISTS \in
       { req[1].form.resErrors[i].type : i \in DOMAIN req[1].form.resErrors }
  /\ FirstReportedIndexes(1) = 1..MaxIndex
  /\ "entries" \in DOMAIN req[1].form.errors
  /\ Len(req[1].form.setErrors) = 1
  /\ DOMAIN req[1].form.setErrors[1] = {"date", "entries", "journal_number"}
  /\ DOMAIN req[1].form.setErrors[1].entries = 0..(MaxIndex - 1)
  /\ Len(req[1].form.toasts) = 1

\* C26: the login throttler has 5 points, blocks for 15 minutes, and keeps
\* the count of failed logins for 90 days since the first failure: its
\* duration is 90 days in seconds, and no count is dropped earlier.
C26_LoginCountKeptNinetyDays ==
  [][ \A p \in Procs :
        req'[p].op = "login" =>
          /\ throttler.login.points = 5
          /\ throttler.login.blockDuration = 15 * 60
          /\ ( /\ req[p].throttle.consumedPoints > 0
               /\ req'[p].throttle.consumedPoints = 0 )
             => ( /\ throttler.login.duration = 60 * 60 * 24 * 90
                  /\ req'[p].throttle.now - req[p].throttle.firstFail
                       >= 60 * 60 * 24 * 90 ) ]_vars

====
